---- MODULE Spec2Model ----
(***************************************************************************)
(* The generalized type folding mechanism of librustc/middle/ty_fold.rs.   *)
(*                                                                         *)
(*     T.fold_with(F) --calls--> F.fold_T(T) --calls--> super_fold_T(F, T) *)
(*                                                                         *)
(* A foldable value is a record; a kind K (a sequence of strings, the      *)
(* container constructors first) names its Rust type.  A folder is a       *)
(* record F that is threaded through the traversal, as `&mut F` is in the   *)
(* code: every operator returns Ret(value, folder after the call).         *)
(***************************************************************************)
EXTENDS Integers, Sequences, FiniteSets, TLC

\* ------------------------------------------------------------------------
\* Bounds of the model
\* ------------------------------------------------------------------------
\* binder ids (ast::NodeId of a FnSig) are 1..NumBinders
NumBinders == 2
\* longest tuple / argument list / per-space vector of the generated families
MaxLen == 2

\* ------------------------------------------------------------------------
\* The type term model (middle::ty, middle::subst): data only
\* ------------------------------------------------------------------------
ParamSpaces == <<"TypeSpace", "SelfSpace", "FnSpace">>

ReStatic == [tag |-> "ReStatic"]
ReEarlyBound(space, index) == [tag |-> "ReEarlyBound", space |-> space, index |-> index]
ReLateBound(binder_id, br) == [tag |-> "ReLateBound", binder_id |-> binder_id, br |-> br]
ReFree(scope_id) == [tag |-> "ReFree", scope_id |-> scope_id]
ReInfer(vid) == [tag |-> "ReInfer", vid |-> vid]

\* Option<T>: None is <<>>, Some(x) is <<x>>
None == <<>>
Some(x) == <<x>>

LeafTags ==
    {"ty_nil", "ty_bot", "ty_bool", "ty_char", "ty_str", "ty_int", "ty_uint",
     "ty_float", "ty_err", "ty_infer", "ty_param"}

ty_leaf(tag) == [tag |-> tag]
ty_param(space, idx) == [tag |-> "ty_param", space |-> space, idx |-> idx]
ty_uniq(typ) == [tag |-> "ty_uniq", ty |-> typ]
ty_ptr(tm) == [tag |-> "ty_ptr", mt |-> tm]
ty_vec(typ, sz) == [tag |-> "ty_vec", ty |-> typ, sz |-> sz]
ty_open(typ) == [tag |-> "ty_open", ty |-> typ]
ty_enum(did, substs) == [tag |-> "ty_enum", def_id |-> did, substs |-> substs]
ty_trait(did, substs, bounds) ==
    [tag |-> "ty_trait", def_id |-> did, substs |-> substs, bounds |-> bounds]
ty_tup(ts) == [tag |-> "ty_tup", tys |-> ts]
ty_bare_fn(f) == [tag |-> "ty_bare_fn", bare_fn |-> f]
ty_closure(f) == [tag |-> "ty_closure", closure |-> f]
ty_rptr(r, tm) == [tag |-> "ty_rptr", r |-> r, mt |-> tm]
ty_struct(did, substs) == [tag |-> "ty_struct", def_id |-> did, substs |-> substs]
ty_unboxed_closure(did, r) == [tag |-> "ty_unboxed_closure", def_id |-> did, r |-> r]

mk_mt(typ, mutbl) == [ty |-> typ, mutbl |-> mutbl]
FnSig(binder_id, inputs, output, variadic) ==
    [binder_id |-> binder_id, inputs |-> inputs, output |-> output, variadic |-> variadic]
BareFnTy(sig, abi, fn_style) == [sig |-> sig, abi |-> abi, fn_style |-> fn_style]
ClosureTy(store, sig, fn_style, onceness, bounds, abi) ==
    [store |-> store, sig |-> sig, fn_style |-> fn_style, onceness |-> onceness,
     bounds |-> bounds, abi |-> abi]
UniqTraitStore == [tag |-> "UniqTraitStore"]
RegionTraitStore(r, m) == [tag |-> "RegionTraitStore", r |-> r, mutbl |-> m]
ExistentialBounds(region_bound, builtin_bounds) ==
    [region_bound |-> region_bound, builtin_bounds |-> builtin_bounds]
\* VecPerParamSpace<T>: one ordered vector per parameter space
VecPerParamSpace(t, s, f) == [TypeSpace |-> t, SelfSpace |-> s, FnSpace |-> f]
ErasedRegions == [tag |-> "ErasedRegions"]
NonerasedRegions(regions) == [tag |-> "NonerasedRegions", regions |-> regions]
Substs(regions, types) == [regions |-> regions, types |-> types]
TraitRef(def_id, substs) == [def_id |-> def_id, substs |-> substs]
ItemSubsts(substs) == [substs |-> substs]
Obligation(cause, recursion_depth, trait_ref) ==
    [cause |-> cause, recursion_depth |-> recursion_depth, trait_ref |-> trait_ref]
AutoPtr(r, m, a) == [tag |-> "AutoPtr", r |-> r, mutbl |-> m, autoref |-> a]
AutoUnsafe(m, a) == [tag |-> "AutoUnsafe", mutbl |-> m, autoref |-> a]
AutoUnsize(k) == [tag |-> "AutoUnsize", kind |-> k]
AutoUnsizeUniq(k) == [tag |-> "AutoUnsizeUniq", kind |-> k]
UnsizeLength(len) == [tag |-> "UnsizeLength", len |-> len]
UnsizeStruct(k, n) == [tag |-> "UnsizeStruct", kind |-> k, n |-> n]
UnsizeVtable(ty_trait_, self_ty) ==
    [tag |-> "UnsizeVtable", ty_trait |-> ty_trait_, self_ty |-> self_ty]
TyTrait(did, substs, bounds) == [def_id |-> did, substs |-> substs, bounds |-> bounds]

\* The interner: ty::mk_t(tcx, sty) returns the one Ty whose sty is structurally
\* equal to the argument, ty::get(t).sty reads it back.  Handle equality is
\* structural equality, so a Ty is modelled by its sty.
mk_t(sty) == sty
get_sty(t) == t

\* ------------------------------------------------------------------------
\* Folders
\* ------------------------------------------------------------------------
\* A folder instance.  kind is the struct implementing TypeFolder;
\* within_binder_ids is RegionFolder's field; fld_r, fld_t, fldop name the
\* closures the folder was built with; substs and span are SubstFolder's.
\* calls is the trace of hook and closure invocations (with the nesting depth
\* of hooks and the binder stack at the time of the call), unwinding says that a closure failed and
\* the stack is being unwound.
NoSubsts == Substs(ErasedRegions, VecPerParamSpace(<<>>, <<>>, <<>>))

Folder(kind) ==
    [kind |-> kind, within_binder_ids |-> <<>>, fld_r |-> "none", fld_t |-> "none",
     fldop |-> "none", substs |-> NoSubsts, span |-> None, calls |-> <<>>,
     depth |-> 0, unwinding |-> FALSE]

Ret(v, F) == [val |-> v, fld |-> F]

Enter(F, hook, node) ==
    [F EXCEPT !.calls = Append(@, [hook |-> hook, node |-> node, depth |-> F.depth,
                                   binders |-> F.within_binder_ids]),
              !.depth = @ + 1]
Leave(R) == Ret(R.val, [R.fld EXCEPT !.depth = @ - 1])

\* ------------------------------------------------------------------------
\* The closures a folder is built with
\* ------------------------------------------------------------------------
\* The fixed marker region of a region-rewriting closure
MarkerRegion == ReInfer(0)

\* fld_r: |ty::Region| -> ty::Region
FldRNames == {"to_marker", "identity", "fail"}
apply_fld_r(name, r) ==
    CASE name = "to_marker" -> MarkerRegion
      [] OTHER -> r

\* fld_t: |Ty| -> Ty;  "noop" is the fn noop of RegionFolder::regions
FldTNames == {"noop", "int_to_uint", "fail_on_fn"}
apply_fld_t(name, t) ==
    CASE name = "int_to_uint" /\ t.tag = "ty_int" -> ty_leaf("ty_uint")
      [] OTHER -> t

\* fldop: |Ty| -> Ty;  "int_to_uint" replaces the leaf ty_int wherever it occurs,
\* "box_param" rewrites a type parameter to a box of itself
FldOpNames == {"noop", "int_to_uint", "box_param"}
apply_fldop(name, t) ==
    CASE name = "int_to_uint" /\ t.tag = "ty_int" -> ty_leaf("ty_uint")
      [] name = "box_param" /\ t.tag = "ty_param" -> ty_uniq(t)
      [] OTHER -> t

\* A closure that fails (fail!, tcx.sess.bug) starts unwinding: nothing that
\* textually follows the call on the way out is executed.
closure_fails(which, name, x) ==
    \/ which = "fld_r" /\ name = "fail"
    \/ which = "fld_t" /\ name = "fail_on_fn" /\ x.tag \in {"ty_bare_fn", "ty_closure"}

call_closure(F, which, name, x) ==
    IF F.unwinding THEN Ret(x, F)
    ELSE IF closure_fails(which, name, x) THEN Ret(x, [F EXCEPT !.unwinding = TRUE])
    ELSE LET F1 == [F EXCEPT !.calls =
                       Append(@, [hook |-> which, node |-> x, depth |-> F.depth,
                                  binders |-> F.within_binder_ids])]
         IN  Ret(CASE which = "fld_r" -> apply_fld_r(name, x)
                   [] which = "fld_t" -> apply_fld_t(name, x)
                   [] OTHER -> apply_fldop(name, x),
                 F1)

\* ------------------------------------------------------------------------
\* TypeFoldable / TypeFolder
\* ------------------------------------------------------------------------
RECURSIVE fold_with(_, _, _)
RECURSIVE fold_ty(_, _)
RECURSIVE fold_mt(_, _)
RECURSIVE fold_trait_ref(_, _)
RECURSIVE fold_sty(_, _)
RECURSIVE fold_substs(_, _)
RECURSIVE fold_sig(_, _)
RECURSIVE fold_bare_fn_ty(_, _)
RECURSIVE fold_closure_ty(_, _)
RECURSIVE fold_region(_, _)
RECURSIVE fold_trait_store(_, _)
RECURSIVE fold_existential_bounds(_, _)
RECURSIVE fold_autoref(_, _)
RECURSIVE fold_item_substs(_, _)
RECURSIVE fold_obligation(_, _)
RECURSIVE super_fold_autoref(_, _)
RECURSIVE fold_iter(_, _, _)

\* mutation of fold_iter: the iteration stops one element early
fold_iter_stops_early(F, K, xs) ==
    IF Len(xs) <= 1 THEN Ret(<<>>, F)
    ELSE LET h == fold_with(F, K, Head(xs))
             t == fold_iter(h.fld, K, Tail(xs))
         IN  Ret(<<h.val>> \o t.val, t.fld)

\* self.iter().map(|t| t.fold_with(folder)).collect(): left to right
fold_iter(F, K, xs) ==
    IF xs = <<>> THEN Ret(<<>>, F)
    ELSE LET h == fold_with(F, K, Head(xs))
             t == fold_iter(h.fld, K, Tail(xs))
         IN  Ret(<<h.val>> \o t.val, t.fld)

\* impl TypeFoldable for Option<T>
fold_with_Option(F, K, x) == fold_iter(F, K, x)

\* impl TypeFoldable for Rc<T>: a new box around the folded pointee
fold_with_Rc(F, K, x) == fold_with(F, K, x)

\* mutation of Vec's fold_with: the vector is returned as it is
fold_with_Vec_unfolded(F, K, x) == Ret(x, F)

\* impl TypeFoldable for Vec<T>
fold_with_Vec(F, K, x) == fold_iter(F, K, x)

\* impl TypeFoldable for OwnedSlice<T>
fold_with_OwnedSlice(F, K, x) == fold_iter(F, K, x)

\* mutation of VecPerParamSpace's fold_with: the folded elements all land in
\* the first space
fold_with_VecPerParamSpace_flattens(F, K, x) ==
    LET all == fold_iter(F, K, x.TypeSpace \o x.SelfSpace \o x.FnSpace)
    IN  Ret(VecPerParamSpace(all.val, <<>>, <<>>), all.fld)

\* impl TypeFoldable for VecPerParamSpace<T>: map visits the spaces in order
\* and keeps each element in its space
fold_with_VecPerParamSpace(F, K, x) ==
    LET t == fold_iter(F, K, x.TypeSpace)
        s == fold_iter(t.fld, K, x.SelfSpace)
        f == fold_iter(s.fld, K, x.FnSpace)
    IN  Ret(VecPerParamSpace(t.val, s.val, f.val), f.fld)

\* impl TypeFoldable for ty::ItemSubsts
fold_with_ItemSubsts(F, x) ==
    LET s == fold_with(F, <<"Substs">>, x.substs)
    IN  Ret(ItemSubsts(s.val), s.fld)

\* impl TypeFoldable for ty::UnsizeKind
fold_with_UnsizeKind(F, x) ==
    CASE x.tag = "UnsizeLength" -> Ret(UnsizeLength(x.len), F)
      [] x.tag = "UnsizeStruct" ->
            LET k == fold_with(F, <<"UnsizeKind">>, x.kind)
            IN  Ret(UnsizeStruct(k.val, x.n), k.fld)
      [] x.tag = "UnsizeVtable" ->
            LET b == fold_with(F, <<"ExistentialBounds">>, x.ty_trait.bounds)
                s == fold_with(b.fld, <<"Substs">>, x.ty_trait.substs)
                t == fold_with(s.fld, <<"Ty">>, x.self_ty)
            IN  Ret(UnsizeVtable(TyTrait(x.ty_trait.def_id, s.val, b.val), t.val), t.fld)

\* ------------------------------------------------------------------------
\* "super" routines: the default implementations for TypeFolder
\* ------------------------------------------------------------------------
super_fold_ty(F, t) ==
    LET sty == fold_with(F, <<"sty">>, get_sty(t))
    IN  Ret(mk_t(sty.val), sty.fld)

super_fold_substs(F, substs) ==
    LET regions == IF substs.regions.tag = "ErasedRegions"
                   THEN Ret(ErasedRegions, F)
                   ELSE LET r == fold_with(F, <<"VecPerParamSpace", "Region">>,
                                           substs.regions.regions)
                        IN  Ret(NonerasedRegions(r.val), r.fld)
        types == fold_with(regions.fld, <<"VecPerParamSpace", "Ty">>, substs.types)
    IN  Ret(Substs(regions.val, types.val), types.fld)

super_fold_sig(F, sig) ==
    LET inputs == fold_with(F, <<"Vec", "Ty">>, sig.inputs)
        output == fold_with(inputs.fld, <<"Ty">>, sig.output)
    IN  Ret(FnSig(sig.binder_id, inputs.val, output.val, sig.variadic), output.fld)

\* mutation of super_fold_bare_fn_ty: the abi is not copied from the input
super_fold_bare_fn_ty_default_abi(F, fty) ==
    LET sig == fold_with(F, <<"FnSig">>, fty.sig)
    IN  Ret(BareFnTy(sig.val, "Rust", fty.fn_style), sig.fld)

super_fold_bare_fn_ty(F, fty) ==
    LET sig == fold_with(F, <<"FnSig">>, fty.sig)
    IN  Ret(BareFnTy(sig.val, fty.abi, fty.fn_style), sig.fld)

super_fold_closure_ty(F, fty) ==
    LET store == fold_with(F, <<"TraitStore">>, fty.store)
        sig == fold_with(store.fld, <<"FnSig">>, fty.sig)
        bounds == fold_with(sig.fld, <<"ExistentialBounds">>, fty.bounds)
    IN  Ret(ClosureTy(store.val, sig.val, fty.fn_style, fty.onceness, bounds.val,
                      fty.abi),
            bounds.fld)

super_fold_trait_ref(F, t) ==
    LET substs == fold_with(F, <<"Substs">>, t.substs)
    IN  Ret(TraitRef(t.def_id, substs.val), substs.fld)

\* mutation of super_fold_mt: the mutability is not copied from the input
super_fold_mt_drops_mutbl(F, mt) ==
    LET typ == fold_with(F, <<"Ty">>, mt.ty)
    IN  Ret(mk_mt(typ.val, "MutImmutable"), typ.fld)

super_fold_mt(F, mt) ==
    LET typ == fold_with(F, <<"Ty">>, mt.ty)
    IN  Ret(mk_mt(typ.val, mt.mutbl), typ.fld)

super_fold_sty(F, sty) ==
    CASE sty.tag = "ty_uniq" ->
            LET typ == fold_with(F, <<"Ty">>, sty.ty)
            IN  Ret(ty_uniq(typ.val), typ.fld)
      [] sty.tag = "ty_ptr" ->
            LET tm == fold_with(F, <<"mt">>, sty.mt)
            IN  Ret(ty_ptr(tm.val), tm.fld)
      [] sty.tag = "ty_vec" ->
            LET typ == fold_with(F, <<"Ty">>, sty.ty)
            IN  Ret(ty_vec(typ.val, sty.sz), typ.fld)
      [] sty.tag = "ty_open" ->
            LET typ == fold_with(F, <<"Ty">>, sty.ty)
            IN  Ret(ty_open(typ.val), typ.fld)
      [] sty.tag = "ty_enum" ->
            LET substs == fold_with(F, <<"Substs">>, sty.substs)
            IN  Ret(ty_enum(sty.def_id, substs.val), substs.fld)
      [] sty.tag = "ty_trait" ->
            LET substs == fold_with(F, <<"Substs">>, sty.substs)
                bounds == fold_existential_bounds(substs.fld, sty.bounds)
            IN  Ret(ty_trait(sty.def_id, substs.val, bounds.val), bounds.fld)
      [] sty.tag = "ty_tup" ->
            LET ts == fold_with(F, <<"Vec", "Ty">>, sty.tys)
            IN  Ret(ty_tup(ts.val), ts.fld)
      [] sty.tag = "ty_bare_fn" ->
            LET f == fold_with(F, <<"BareFnTy">>, sty.bare_fn)
            IN  Ret(ty_bare_fn(f.val), f.fld)
      [] sty.tag = "ty_closure" ->
            LET f == fold_with(F, <<"ClosureTy">>, sty.closure)
            IN  Ret(ty_closure(f.val), f.fld)
      [] sty.tag = "ty_rptr" ->
            LET r == fold_with(F, <<"Region">>, sty.r)
                tm == fold_with(r.fld, <<"mt">>, sty.mt)
            IN  Ret(ty_rptr(r.val, tm.val), tm.fld)
      [] sty.tag = "ty_struct" ->
            LET substs == fold_with(F, <<"Substs">>, sty.substs)
            IN  Ret(ty_struct(sty.def_id, substs.val), substs.fld)
      [] sty.tag = "ty_unboxed_closure" ->
            LET region == fold_with(F, <<"Region">>, sty.r)
            IN  Ret(ty_unboxed_closure(sty.def_id, region.val), region.fld)
      [] sty.tag \in LeafTags -> Ret(sty, F)

super_fold_trait_store(F, trait_store) ==
    CASE trait_store.tag = "UniqTraitStore" -> Ret(UniqTraitStore, F)
      [] trait_store.tag = "RegionTraitStore" ->
            LET r == fold_with(F, <<"Region">>, trait_store.r)
            IN  Ret(RegionTraitStore(r.val, trait_store.mutbl), r.fld)

super_fold_existential_bounds(F, bounds) ==
    LET region_bound == fold_with(F, <<"Region">>, bounds.region_bound)
    IN  Ret(ExistentialBounds(region_bound.val, bounds.builtin_bounds),
            region_bound.fld)

super_fold_autoref(F, autoref) ==
    CASE autoref.tag = "AutoPtr" /\ autoref.autoref = None ->
            LET r == fold_region(F, autoref.r)
            IN  Ret(AutoPtr(r.val, autoref.mutbl, None), r.fld)
      [] autoref.tag = "AutoPtr" /\ autoref.autoref # None ->
            LET r == fold_region(F, autoref.r)
                a == super_fold_autoref(r.fld, autoref.autoref[1])
            IN  Ret(AutoPtr(r.val, autoref.mutbl, Some(a.val)), a.fld)
      [] autoref.tag = "AutoUnsafe" /\ autoref.autoref = None ->
            Ret(AutoUnsafe(autoref.mutbl, None), F)
      [] autoref.tag = "AutoUnsafe" /\ autoref.autoref # None ->
            LET a == super_fold_autoref(F, autoref.autoref[1])
            IN  Ret(AutoUnsafe(autoref.mutbl, Some(a.val)), a.fld)
      [] autoref.tag = "AutoUnsize" ->
            LET k == fold_with(F, <<"UnsizeKind">>, autoref.kind)
            IN  Ret(AutoUnsize(k.val), k.fld)
      [] autoref.tag = "AutoUnsizeUniq" ->
            LET k == fold_with(F, <<"UnsizeKind">>, autoref.kind)
            IN  Ret(AutoUnsizeUniq(k.val), k.fld)

super_fold_item_substs(F, substs) ==
    LET s == fold_with(F, <<"Substs">>, substs.substs)
    IN  Ret(ItemSubsts(s.val), s.fld)

super_fold_obligation(F, obligation) ==
    LET trait_ref == fold_with(F, <<"Rc", "TraitRef">>, obligation.trait_ref)
    IN  Ret(Obligation(obligation.cause, obligation.recursion_depth, trait_ref.val),
            trait_ref.fld)

\* ------------------------------------------------------------------------
\* Some sample folders
\* ------------------------------------------------------------------------
\* mutation of BottomUpFolder's fold_ty: fldop is applied on the way down,
\* before the structural default
BottomUpFolder_fold_ty_top_down(F, ty) ==
    LET t1 == call_closure(F, "fldop", F.fldop, ty)
    IN  super_fold_ty(t1.fld, t1.val)

\* impl TypeFolder for BottomUpFolder
BottomUpFolder_fold_ty(F, ty) ==
    LET t1 == super_fold_ty(F, ty)
    IN  call_closure(t1.fld, "fldop", F.fldop, t1.val)

\* RegionFolder::general / RegionFolder::regions
RegionFolder_general(fld_r, fld_t) ==
    [Folder("RegionFolder") EXCEPT !.fld_r = fld_r, !.fld_t = fld_t,
                                   !.within_binder_ids = <<>>]
RegionFolder_regions(fld_r) ==
    [Folder("RegionFolder") EXCEPT !.fld_r = fld_r, !.fld_t = "noop",
                                   !.within_binder_ids = <<>>]

\* mutation of opt_binder_id_of_function: the closure arm is missing
opt_binder_id_of_function_fn_only(t) ==
    IF get_sty(t).tag = "ty_bare_fn" THEN Some(get_sty(t).bare_fn.sig.binder_id) ELSE None

\* If `ty` has `FnSig` (i.e. closure or fn), return its binder_id; else None.
opt_binder_id_of_function(t) ==
    CASE get_sty(t).tag = "ty_closure" -> Some(get_sty(t).closure.sig.binder_id)
      [] get_sty(t).tag = "ty_bare_fn" -> Some(get_sty(t).bare_fn.sig.binder_id)
      [] OTHER -> None

\* Vec::push, Vec::pop, Vec::contains on within_binder_ids
push(v, x) == Append(v, x)
pop(v) == IF v = <<>> THEN v ELSE SubSeq(v, 1, Len(v) - 1)
contains(v, x) == \E i \in DOMAIN v : v[i] = x

\* mutation of RegionFolder's fold_ty: the binder id is left on the stack
RegionFolder_fold_ty_never_pops(F, ty) ==
    LET opt_binder_id == opt_binder_id_of_function(ty)
        F1 == IF opt_binder_id # None
              THEN [F EXCEPT !.within_binder_ids = push(@, opt_binder_id[1])]
              ELSE F
        t1 == super_fold_ty(F1, ty)
    IN  call_closure(t1.fld, "fld_t", F.fld_t, t1.val)

\* mutation of RegionFolder's fold_ty: the binder id is pushed after the
\* traversal of the type
RegionFolder_fold_ty_pushes_late(F, ty) ==
    LET opt_binder_id == opt_binder_id_of_function(ty)
        t1 == super_fold_ty(F, ty)
        F1 == IF opt_binder_id # None
              THEN [t1.fld EXCEPT !.within_binder_ids = push(@, opt_binder_id[1])]
              ELSE t1.fld
        ret == call_closure(F1, "fld_t", F.fld_t, t1.val)
    IN  IF opt_binder_id # None /\ ~ret.fld.unwinding
        THEN Ret(ret.val, [ret.fld EXCEPT !.within_binder_ids = pop(@)])
        ELSE ret

\* impl TypeFolder for RegionFolder: fold_ty.  When the traversal below or
\* fld_t fails, the frames are unwound and the pop is not executed.
RegionFolder_fold_ty(F, ty) ==
    LET opt_binder_id == opt_binder_id_of_function(ty)
        F1 == IF opt_binder_id # None
              THEN [F EXCEPT !.within_binder_ids = push(@, opt_binder_id[1])]
              ELSE F
        t1 == super_fold_ty(F1, ty)
        ret == call_closure(t1.fld, "fld_t", F.fld_t, t1.val)
    IN  IF opt_binder_id # None /\ ~ret.fld.unwinding
        THEN Ret(ret.val, [ret.fld EXCEPT !.within_binder_ids = pop(@)])
        ELSE ret

\* mutation of RegionFolder's fold_region: every region is handed to fld_r
RegionFolder_fold_region_always_folds(F, r) == call_closure(F, "fld_r", F.fld_r, r)

\* mutation of RegionFolder's fold_region: a late-bound region is kept whatever
\* binders are in scope
RegionFolder_fold_region_ignores_scope(F, r) ==
    IF r.tag = "ReLateBound" THEN Ret(r, F) ELSE call_closure(F, "fld_r", F.fld_r, r)

\* impl TypeFolder for RegionFolder: fold_region
RegionFolder_fold_region(F, r) ==
    IF r.tag = "ReLateBound" /\ contains(F.within_binder_ids, r.binder_id)
    THEN Ret(r, F)
    ELSE call_closure(F, "fld_r", F.fld_r, r)

\* mutation of RegionEraser's fold_region: free regions are kept like bound ones
RegionEraser_fold_region_keeps_free(F, r) ==
    IF r.tag \in {"ReLateBound", "ReEarlyBound", "ReFree"}
    THEN Ret(r, F)
    ELSE Ret(ReStatic, F)

\* mutation of RegionEraser's fold_region: only late-bound regions are kept
RegionEraser_fold_region_erases_early(F, r) ==
    IF r.tag = "ReLateBound" THEN Ret(r, F) ELSE Ret(ReStatic, F)

\* impl TypeFolder for RegionEraser: fold_region
RegionEraser_fold_region(F, r) ==
    IF r.tag \in {"ReLateBound", "ReEarlyBound"} THEN Ret(r, F) ELSE Ret(ReStatic, F)

\* subst::SubstFolder (middle/subst.rs), from its description: a generic
\* parameter placeholder is looked up by (space, index) in the substitution
\* (the interner's error term when the slot is not covered), every other type
\* falls through to the structural default.
SubstFolder_new(substs, span) ==
    [Folder("SubstFolder") EXCEPT !.substs = substs, !.span = span]

SubstFolder_fold_ty(F, t) ==
    IF get_sty(t).tag = "ty_param"
    THEN LET v == F.substs.types[get_sty(t).space]
         IN  IF get_sty(t).idx + 1 \in DOMAIN v
             THEN Ret(v[get_sty(t).idx + 1], F)
             ELSE Ret(mk_t(ty_leaf("ty_err")), F)
    ELSE super_fold_ty(F, t)

\* An early-bound region is resolved against the substitution's regions, or
\* erased (to the static region) if the substitution was built with regions
\* erased; a slot the substitution does not cover is an internal error.
SubstFolder_fold_region(F, r) ==
    IF r.tag = "ReEarlyBound"
    THEN IF F.substs.regions.tag = "ErasedRegions" THEN Ret(ReStatic, F)
         ELSE LET v == F.substs.regions.regions[r.space]
              IN  IF r.index + 1 \in DOMAIN v
                  THEN Ret(v[r.index + 1], F)
                  ELSE Ret(r, [F EXCEPT !.unwinding = TRUE])
    ELSE Ret(r, F)

\* ------------------------------------------------------------------------
\* trait TypeFolder: one hook per foldable kind, overridden per folder
\* ------------------------------------------------------------------------
fold_ty(F, t) ==
    IF F.unwinding THEN Ret(t, F)
    ELSE LET F1 == Enter(F, "fold_ty", t)
         IN  Leave(CASE F.kind = "BottomUpFolder" -> BottomUpFolder_fold_ty(F1, t)
                     [] F.kind = "RegionFolder" -> RegionFolder_fold_ty(F1, t)
                     [] F.kind = "SubstFolder" -> SubstFolder_fold_ty(F1, t)
                     [] OTHER -> super_fold_ty(F1, t))

fold_mt(F, t) ==
    IF F.unwinding THEN Ret(t, F)
    ELSE Leave(super_fold_mt(Enter(F, "fold_mt", t), t))

fold_trait_ref(F, t) ==
    IF F.unwinding THEN Ret(t, F)
    ELSE Leave(super_fold_trait_ref(Enter(F, "fold_trait_ref", t), t))

fold_sty(F, sty) ==
    IF F.unwinding THEN Ret(sty, F)
    ELSE Leave(super_fold_sty(Enter(F, "fold_sty", sty), sty))

fold_substs(F, substs) ==
    IF F.unwinding THEN Ret(substs, F)
    ELSE Leave(super_fold_substs(Enter(F, "fold_substs", substs), substs))

fold_sig(F, sig) ==
    IF F.unwinding THEN Ret(sig, F)
    ELSE Leave(super_fold_sig(Enter(F, "fold_sig", sig), sig))

fold_bare_fn_ty(F, fty) ==
    IF F.unwinding THEN Ret(fty, F)
    ELSE Leave(super_fold_bare_fn_ty(Enter(F, "fold_bare_fn_ty", fty), fty))

fold_closure_ty(F, fty) ==
    IF F.unwinding THEN Ret(fty, F)
    ELSE Leave(super_fold_closure_ty(Enter(F, "fold_closure_ty", fty), fty))

fold_region(F, r) ==
    IF F.unwinding THEN Ret(r, F)
    ELSE LET F1 == Enter(F, "fold_region", r)
         IN  Leave(CASE F.kind = "RegionFolder" -> RegionFolder_fold_region(F1, r)
                     [] F.kind = "RegionEraser" -> RegionEraser_fold_region(F1, r)
                     [] F.kind = "SubstFolder" -> SubstFolder_fold_region(F1, r)
                     [] OTHER -> Ret(r, F1))

fold_trait_store(F, s) ==
    IF F.unwinding THEN Ret(s, F)
    ELSE Leave(super_fold_trait_store(Enter(F, "fold_trait_store", s), s))

fold_existential_bounds(F, s) ==
    IF F.unwinding THEN Ret(s, F)
    ELSE Leave(super_fold_existential_bounds(Enter(F, "fold_existential_bounds", s), s))

fold_autoref(F, ar) ==
    IF F.unwinding THEN Ret(ar, F)
    ELSE Leave(super_fold_autoref(Enter(F, "fold_autoref", ar), ar))

fold_item_substs(F, i) ==
    IF F.unwinding THEN Ret(i, F)
    ELSE Leave(super_fold_item_substs(Enter(F, "fold_item_substs", i), i))

fold_obligation(F, o) ==
    IF F.unwinding THEN Ret(o, F)
    ELSE Leave(super_fold_obligation(Enter(F, "fold_obligation", o), o))

\* ------------------------------------------------------------------------
\* trait TypeFoldable: fold_with, by the kind K of the value
\* ------------------------------------------------------------------------
fold_with(F, K, x) ==
    CASE K[1] = "unit" -> Ret(x, F)
      [] K[1] = "Option" -> fold_with_Option(F, Tail(K), x)
      [] K[1] = "Rc" -> fold_with_Rc(F, Tail(K), x)
      [] K[1] = "Vec" -> fold_with_Vec(F, Tail(K), x)
      [] K[1] = "OwnedSlice" -> fold_with_OwnedSlice(F, Tail(K), x)
      [] K[1] = "VecPerParamSpace" -> fold_with_VecPerParamSpace(F, Tail(K), x)
      [] K[1] = "TraitStore" -> fold_trait_store(F, x)
      [] K[1] = "Ty" -> fold_ty(F, x)
      [] K[1] = "BareFnTy" -> fold_bare_fn_ty(F, x)
      [] K[1] = "ClosureTy" -> fold_closure_ty(F, x)
      [] K[1] = "mt" -> fold_mt(F, x)
      [] K[1] = "FnSig" -> fold_sig(F, x)
      [] K[1] = "sty" -> fold_sty(F, x)
      [] K[1] = "TraitRef" -> fold_trait_ref(F, x)
      [] K[1] = "Region" -> fold_region(F, x)
      [] K[1] = "Substs" -> fold_substs(F, x)
      [] K[1] = "ItemSubsts" -> fold_with_ItemSubsts(F, x)
      [] K[1] = "AutoRef" -> fold_autoref(F, x)
      [] K[1] = "BuiltinBounds" -> Ret(x, F)
      [] K[1] = "ExistentialBounds" -> fold_existential_bounds(F, x)
      [] K[1] = "UnsizeKind" -> fold_with_UnsizeKind(F, x)
      [] K[1] = "Obligation" -> fold_obligation(F, x)

\* TypeFoldable::subst_spanned / subst
subst_spanned(x, K, substs, span) ==
    LET folder == SubstFolder_new(substs, span)
    IN  fold_with(folder, K, x)

subst(x, K, substs) == subst_spanned(x, K, substs, None)

\* erase_regions
erase_regions(K, t) ==
    LET eraser == Folder("RegionEraser")
    IN  fold_with(eraser, K, t)

\* ------------------------------------------------------------------------
\* The values a caller may hold: bounded sets of well-formed terms
\* ------------------------------------------------------------------------
RECURSIVE SeqsOfLen(_, _)
SeqsOfLen(S, n) ==
    IF n = 0 THEN {<<>>} ELSE {<<x>> \o s : x \in S, s \in SeqsOfLen(S, n - 1)}
SeqsUpTo(S, n) == UNION {SeqsOfLen(S, k) : k \in 0..n}

\* sequences of at most n elements: all over the small set P, or one element
\* of S at any place among elements of P
SeqsWith(S, P, n) ==
    SeqsUpTo(P, n)
        \cup {pre \o <<a>> \o post :
                 a \in S,
                 pre \in SeqsUpTo(P, n - 1),
                 post \in {q \in SeqsUpTo(P, n - 1) : Len(q) <= 1}}

\* the per-space vectors that partition one of the sequences qs
VppsOf(qs) ==
    {VecPerParamSpace(q, <<>>, <<>>) : q \in qs}
        \cup {VecPerParamSpace(SubSeq(q, 1, Len(q) - 1), <<q[Len(q)]>>, <<>>) :
                 q \in {q \in qs : Len(q) >= 1}}
        \cup {VecPerParamSpace(SubSeq(q, 1, Len(q) - 1), <<>>, <<q[Len(q)]>>) :
                 q \in {q \in qs : Len(q) >= 1}}
        \cup {VecPerParamSpace(SubSeq(q, 1, Len(q) - 2), <<q[Len(q) - 1]>>, <<q[Len(q)]>>) :
                 q \in {q \in qs : Len(q) >= 2}}

BinderIds == 1..NumBinders
Regions ==
    {ReStatic, ReEarlyBound("TypeSpace", 0), ReFree(1), ReInfer(1)}
        \cup {ReLateBound(b, 0) : b \in BinderIds}
Mutbls == {"MutImmutable", "MutMutable"}
TyInt == ty_leaf("ty_int")
Param0 == ty_param("TypeSpace", 0)
\* the small set of types that fill the other places of a sequence
Kids0 == {TyInt, Param0}

\* substitutions with types from S (and Kids0) and regions from R
SubstsOver(S, R) ==
    {Substs(ErasedRegions, t) : t \in VppsOf(SeqsWith(S, Kids0, MaxLen))}
        \cup {Substs(NonerasedRegions(r), t) :
                 r \in VppsOf(SeqsUpTo(R, 1)), t \in VppsOf(SeqsUpTo(S, 1))}

SigsOver(S) ==
    {FnSig(b, ins, TyInt, FALSE) : b \in BinderIds, ins \in SeqsWith(S, Kids0, MaxLen)}
        \cup {FnSig(b, <<>>, out, TRUE) : b \in BinderIds, out \in S}
BareFnsOver(S) == {BareFnTy(sig, "C", "UnsafeFn") : sig \in SigsOver(S)}
StoresOver(R) == {UniqTraitStore} \cup {RegionTraitStore(r, "MutMutable") : r \in R}
BoundsOver(R) == {ExistentialBounds(r, {"BoundSend"}) : r \in R}
ClosuresOver(S, R) ==
    {ClosureTy(UniqTraitStore, sig, "NormalFn", "Once",
               ExistentialBounds(ReStatic, {"BoundSend"}), "Rust") : sig \in SigsOver(S)}
        \cup {ClosureTy(st, FnSig(b, <<>>, TyInt, FALSE), "NormalFn", "Many", bd, "Rust") :
                 st \in StoresOver(R), bd \in BoundsOver(R), b \in BinderIds}

\* every composite variant of sty with type children from S, regions from R
TysOver(S, R) ==
    {ty_uniq(t) : t \in S}
        \cup {ty_ptr(mk_mt(t, m)) : t \in S, m \in Mutbls}
        \cup {ty_vec(t, sz) : t \in S, sz \in {None, Some(3)}}
        \cup {ty_open(t) : t \in S}
        \cup {ty_enum(7, su) : su \in SubstsOver(S, R)}
        \cup {ty_struct(8, su) : su \in SubstsOver(S, R)}
        \cup {ty_trait(9, su, bd) : su \in SubstsOver(S, {ReFree(1)}), bd \in BoundsOver(R)}
        \cup {ty_tup(ts) : ts \in SeqsWith(S, Kids0, MaxLen)}
        \cup {ty_bare_fn(f) : f \in BareFnsOver(S)}
        \cup {ty_closure(f) : f \in ClosuresOver(S, R)}
        \cup {ty_rptr(r, mk_mt(t, "MutMutable")) : r \in R, t \in S}
        \cup {ty_unboxed_closure(10, r) : r \in R}

Leaves ==
    {ty_leaf(tag) : tag \in LeafTags \ {"ty_param"}}
        \cup {ty_param(sp, 0) : sp \in {"TypeSpace", "SelfSpace", "FnSpace"}}
        \cup {ty_param("TypeSpace", 1)}

\* depth 1, 2 and 3
Tys1 == TysOver(Kids0, Regions)
Kids1 == {ty_rptr(r, mk_mt(TyInt, "MutMutable")) : r \in Regions} \cup {ty_uniq(Param0)}
Tys2 == TysOver(Kids1, {ReFree(1)})
LateBounds == {ReLateBound(c, 0) : c \in BinderIds}
\* function and closure types that use a late-bound region of their own binder,
\* of another binder, or a free region
OtherBinder(b) == (b % NumBinders) + 1
Kids2 ==
    {ty_bare_fn(BareFnTy(FnSig(b, <<ty_rptr(r, mk_mt(TyInt, "MutMutable"))>>, TyInt, FALSE),
                         "C", "UnsafeFn")) :
        b \in BinderIds, r \in LateBounds \cup {ReFree(1)}}
        \cup {ty_closure(ClosureTy(RegionTraitStore(ReLateBound(p[2], 0), "MutMutable"),
                                   FnSig(p[1], <<Param0>>, TyInt, FALSE), "NormalFn", "Once",
                                   ExistentialBounds(ReLateBound(p[2], 0), {"BoundSend"}),
                                   "Rust")) :
                 p \in {<<b, b>> : b \in BinderIds}
                           \cup {<<b, OtherBinder(b)>> : b \in BinderIds}}
\* a type of S under each composite variant of sty
WrapsOver(S) ==
    {ty_uniq(t) : t \in S}
        \cup {ty_ptr(mk_mt(t, m)) : t \in S, m \in Mutbls}
        \cup {ty_vec(t, Some(3)) : t \in S}
        \cup {ty_open(t) : t \in S}
        \cup {ty_enum(7, Substs(ErasedRegions, v)) : v \in VppsOf(SeqsWith(S, Kids0, 1))}
        \cup {ty_struct(8, Substs(NonerasedRegions(VecPerParamSpace(<<ReFree(1)>>, <<>>, <<>>)),
                                  VecPerParamSpace(<<>>, <<>>, <<t>>))) : t \in S}
        \cup {ty_trait(9, Substs(ErasedRegions, VecPerParamSpace(<<t>>, <<>>, <<>>)),
                        ExistentialBounds(ReFree(1), {"BoundSend"})) : t \in S}
        \cup {ty_tup(ts) : ts \in SeqsWith(S, Kids0, MaxLen)}
        \cup {ty_bare_fn(BareFnTy(FnSig(b, <<t>>, TyInt, FALSE), "C", "UnsafeFn")) :
                 t \in S, b \in BinderIds}
        \cup {ty_closure(ClosureTy(UniqTraitStore, FnSig(b, <<TyInt>>, t, FALSE), "NormalFn",
                                   "Once", ExistentialBounds(ReStatic, {"BoundSend"}), "Rust")) :
                 t \in S, b \in BinderIds}
Tys3 ==
    WrapsOver(Kids2)
        \cup {ty_tup(<<f, ty_rptr(r, mk_mt(TyInt, "MutMutable"))>>) : f \in Kids2, r \in Regions}
        \cup {ty_rptr(r, mk_mt(f, "MutImmutable")) : f \in Kids2, r \in Regions}
        \cup {ty_tup(<<f, ty_rptr(r, mk_mt(TyInt, "MutMutable")),
                       ty_rptr(ReFree(1), mk_mt(TyInt, "MutMutable"))>>) :
                 f \in Kids2, r \in LateBounds}

AllTys == Leaves \cup Tys1 \cup Tys2 \cup Tys3

\* values of the other foldable kinds
AllSubsts == SubstsOver(Kids0, Regions) \cup SubstsOver({ty_uniq(Param0)}, {ReInfer(1)})
AutoRefs1 ==
    {AutoPtr(r, "MutMutable", None) : r \in Regions}
        \cup {AutoUnsafe("MutMutable", None),
              AutoUnsize(UnsizeLength(3)),
              AutoUnsize(UnsizeStruct(UnsizeLength(3), 1)),
              AutoUnsizeUniq(UnsizeVtable(
                  TyTrait(9, Substs(ErasedRegions, VecPerParamSpace(<<Param0>>, <<>>, <<>>)),
                          ExistentialBounds(ReFree(1), {"BoundSend"})),
                  ty_rptr(ReInfer(1), mk_mt(TyInt, "MutMutable"))))}
AutoRefs ==
    AutoRefs1
        \cup {AutoPtr(r, "MutImmutable", Some(a)) : r \in {ReFree(1), ReStatic}, a \in AutoRefs1}
        \cup {AutoUnsafe("MutImmutable", Some(a)) : a \in AutoRefs1}
VecElems == {ty_uniq(TyInt), TyInt, Param0}
SliceElems == VecElems \cup {ty_rptr(ReFree(1), mk_mt(TyInt, "MutMutable"))}

Val(K, x) == [kind |-> K, node |-> x]

Inputs ==
    {Val(<<"Ty">>, t) : t \in AllTys}
        \cup {Val(<<"sty">>, t) : t \in Leaves \cup TysOver(Kids0, {ReFree(1)})}
        \cup {Val(<<"mt">>, mk_mt(t, m)) : t \in Kids1 \cup Kids2, m \in Mutbls}
        \cup {Val(<<"FnSig">>, g) : g \in SigsOver(Kids1)}
        \cup {Val(<<"BareFnTy">>, f) : f \in BareFnsOver(Kids1)}
        \cup {Val(<<"ClosureTy">>, f) : f \in ClosuresOver(Kids1, Regions)}
        \cup {Val(<<"Substs">>, su) : su \in AllSubsts}
        \cup {Val(<<"TraitRef">>, TraitRef(11, su)) : su \in AllSubsts}
        \cup {Val(<<"ItemSubsts">>, ItemSubsts(su)) : su \in AllSubsts}
        \cup {Val(<<"Obligation">>, Obligation("MiscObligation", 1, TraitRef(11, su))) :
                 su \in AllSubsts}
        \cup {Val(<<"Region">>, r) : r \in Regions}
        \cup {Val(<<"TraitStore">>, st) : st \in StoresOver(Regions)}
        \cup {Val(<<"ExistentialBounds">>, bd) : bd \in BoundsOver(Regions)}
        \cup {Val(<<"AutoRef">>, a) : a \in AutoRefs}
        \cup {Val(<<"Option", "Ty">>, o) : o \in SeqsUpTo(Kids1 \cup Kids2, 1)}
        \cup {Val(<<"Option", "AutoRef">>, o) : o \in SeqsUpTo(AutoRefs1, 1)}
        \cup {Val(<<"Vec", "Ty">>, v) : v \in SeqsUpTo(VecElems, MaxLen + 1)}
        \cup {Val(<<"Vec", "Region">>, v) : v \in SeqsUpTo(Regions, MaxLen)}
        \cup {Val(<<"OwnedSlice", "Ty">>, v) : v \in SeqsUpTo(SliceElems, MaxLen)}
        \cup {Val(<<"Rc", "TraitRef">>, TraitRef(11, su)) : su \in SubstsOver(Kids0, {ReFree(1)})}
        \cup {Val(<<"VecPerParamSpace", "Ty">>, v) : v \in VppsOf(SeqsUpTo(VecElems, MaxLen + 1))}
        \cup {Val(<<"VecPerParamSpace", "Region">>, v) : v \in VppsOf(SeqsUpTo(Regions, MaxLen))}
        \cup {Val(<<"Option", "Vec", "Ty">>, o) : o \in SeqsUpTo(SeqsUpTo(Kids0, MaxLen), 1)}

\* the substitutions a caller applies: slot (TypeSpace, 0) and more
SubstChoices ==
    {Substs(ErasedRegions, VecPerParamSpace(<<ty_leaf("ty_bool")>>, <<>>, <<>>)),
     Substs(NonerasedRegions(VecPerParamSpace(<<ReFree(1)>>, <<>>, <<>>)),
            VecPerParamSpace(<<ty_uniq(ty_leaf("ty_char")), ty_leaf("ty_float")>>,
                             <<ty_leaf("ty_str")>>, <<>>)),
     Substs(ErasedRegions,
            VecPerParamSpace(<<>>, <<>>, <<ty_tup(<<TyInt, ty_leaf("ty_bool")>>)>>))}
Spans == {None, Some(5)}

\* ------------------------------------------------------------------------
\* The state: a caller holding a value, a folder instance, and the results of
\* the operations it has applied
\* ------------------------------------------------------------------------
VARIABLES input, folder, op, result, prev
vars == <<input, folder, op, result, prev>>

Init ==
    /\ input \in Inputs
    /\ folder = Folder("none")
    /\ op = "init"
    /\ result = input.node
    /\ prev = input.node

\* a folder that overrides no hook of TypeFolder
NewDefaultFolder ==
    /\ op = "init"
    /\ folder' = Folder("Default")
    /\ op' = "ready"
    /\ UNCHANGED <<input, result, prev>>

\* RegionEraser { tcx: tcx }
NewRegionEraser ==
    /\ op = "init"
    /\ folder' = Folder("RegionEraser")
    /\ op' = "ready"
    /\ UNCHANGED <<input, result, prev>>

\* BottomUpFolder { tcx: tcx, fldop: fldop }
NewBottomUpFolder ==
    /\ op = "init"
    /\ \E fldop \in FldOpNames :
          folder' = [Folder("BottomUpFolder") EXCEPT !.fldop = fldop]
    /\ op' = "ready"
    /\ UNCHANGED <<input, result, prev>>

\* RegionFolder::general(tcx, fld_r, fld_t)
NewRegionFolderGeneral ==
    /\ op = "init"
    /\ \E c \in {<<"to_marker", "fail_on_fn">>, <<"identity", "int_to_uint">>} :
          folder' = RegionFolder_general(c[1], c[2])
    /\ op' = "ready"
    /\ UNCHANGED <<input, result, prev>>

\* RegionFolder::regions(tcx, fld_r)
NewRegionFolderRegions ==
    /\ op = "init"
    /\ \E fld_r \in FldRNames : folder' = RegionFolder_regions(fld_r)
    /\ op' = "ready"
    /\ UNCHANGED <<input, result, prev>>

\* input.fold_with(&mut folder)
FoldWith ==
    /\ op = "ready"
    /\ LET R == fold_with([folder EXCEPT !.calls = <<>>], input.kind, input.node)
       IN  /\ folder' = R.fld
           /\ result' = R.val
    /\ op' = "folded"
    /\ UNCHANGED <<input, prev>>

\* input.fold_with(&mut folder) once more, with the same folder instance (a
\* fold that failed has unwound the frame that owns the folder: no second call)
FoldWithAgain ==
    /\ op = "folded"
    /\ ~folder.unwinding
    /\ LET R == fold_with([folder EXCEPT !.calls = <<>>], input.kind, input.node)
       IN  /\ folder' = R.fld
           /\ result' = R.val
    /\ prev' = result
    /\ op' = "folded_again"
    /\ UNCHANGED input

\* erase_regions(tcx, input)
EraseRegions ==
    /\ op = "init"
    /\ LET R == erase_regions(input.kind, input.node)
       IN  /\ folder' = R.fld
           /\ result' = R.val
    /\ op' = "erased"
    /\ UNCHANGED <<input, prev>>

\* erase_regions(tcx, result): erasing what was erased
EraseRegionsAgain ==
    /\ op = "erased"
    /\ LET R == erase_regions(input.kind, result)
       IN  /\ folder' = R.fld
           /\ result' = R.val
    /\ prev' = result
    /\ op' = "erased_again"
    /\ UNCHANGED input

\* input.subst(tcx, substs)
Subst ==
    /\ op = "init"
    /\ \E substs \in SubstChoices :
          LET R == subst(input.node, input.kind, substs)
          IN  /\ folder' = R.fld
              /\ result' = R.val
    /\ op' = "subst"
    /\ UNCHANGED <<input, prev>>

\* input.subst_spanned(tcx, substs, span), with the substitution of the subst before
SubstSpanned ==
    /\ op = "subst"
    /\ \E span \in Spans :
          LET R == subst_spanned(input.node, input.kind, folder.substs, span)
          IN  /\ folder' = R.fld
              /\ result' = R.val
    /\ prev' = result
    /\ op' = "subst_spanned"
    /\ UNCHANGED input

\* super_fold_X(&mut folder, &input): the structural default of the input's
\* kind, called as the public function it is, outside any hook
SuperFold ==
    /\ op = "ready"
    /\ Len(input.kind) = 1
    /\ input.kind[1] \in {"Ty", "Substs", "FnSig", "BareFnTy", "ClosureTy", "TraitRef",
                          "mt", "sty", "TraitStore", "ExistentialBounds", "AutoRef",
                          "ItemSubsts", "Obligation"}
    /\ LET F == [folder EXCEPT !.calls = <<>>]
           k == input.kind[1]
           x == input.node
           R == CASE k = "Ty" -> super_fold_ty(F, x)
                  [] k = "Substs" -> super_fold_substs(F, x)
                  [] k = "FnSig" -> super_fold_sig(F, x)
                  [] k = "BareFnTy" -> super_fold_bare_fn_ty(F, x)
                  [] k = "ClosureTy" -> super_fold_closure_ty(F, x)
                  [] k = "TraitRef" -> super_fold_trait_ref(F, x)
                  [] k = "mt" -> super_fold_mt(F, x)
                  [] k = "sty" -> super_fold_sty(F, x)
                  [] k = "TraitStore" -> super_fold_trait_store(F, x)
                  [] k = "ExistentialBounds" -> super_fold_existential_bounds(F, x)
                  [] k = "AutoRef" -> super_fold_autoref(F, x)
                  [] k = "ItemSubsts" -> super_fold_item_substs(F, x)
                  [] k = "Obligation" -> super_fold_obligation(F, x)
       IN  /\ folder' = R.fld
           /\ result' = R.val
    /\ op' = "super_folded"
    /\ UNCHANGED <<input, prev>>

Next ==
    \/ NewDefaultFolder
    \/ NewRegionEraser
    \/ NewBottomUpFolder
    \/ NewRegionFolderGeneral
    \/ NewRegionFolderRegions
    \/ FoldWith
    \/ FoldWithAgain
    \/ EraseRegions
    \/ EraseRegionsAgain
    \/ Subst
    \/ SubstSpanned
    \/ SuperFold

Spec == Init /\ [][Next]_vars

\* the operations of each group of folders
NextDefault == NewDefaultFolder \/ FoldWith \/ FoldWithAgain
SpecDefault == Init /\ [][NextDefault]_vars

NextErase == EraseRegions \/ EraseRegionsAgain
SpecErase == Init /\ [][NextErase]_vars

NextRegion ==
    \/ NewRegionFolderGeneral
    \/ NewRegionFolderRegions
    \/ NewRegionEraser
    \/ FoldWith
    \/ FoldWithAgain
SpecRegion == Init /\ [][NextRegion]_vars

NextBottomUp == NewBottomUpFolder \/ FoldWith \/ FoldWithAgain
SpecBottomUp == Init /\ [][NextBottomUp]_vars

NextSubst == Subst \/ SubstSpanned
SpecSubst == Init /\ [][NextSubst]_vars

NextSuper ==
    \/ NewDefaultFolder
    \/ NewBottomUpFolder
    \/ NewRegionFolderRegions
    \/ NewRegionEraser
    \/ SuperFold
SpecSuper == Init /\ [][NextSuper]_vars

\* ------------------------------------------------------------------------
\* Observers of a term: its parts, read off the data model alone
\* ------------------------------------------------------------------------
Part(K, x) == [k |-> K, n |-> x]
Containers == {"Option", "Rc", "Vec", "OwnedSlice", "VecPerParamSpace"}

\* the foldable children of a value of kind K, in field order
Children(K, x) ==
    CASE K[1] \in {"Option", "Vec", "OwnedSlice"} ->
            [i \in 1..Len(x) |-> Part(Tail(K), x[i])]
      [] K[1] = "Rc" -> <<Part(Tail(K), x)>>
      [] K[1] = "VecPerParamSpace" ->
            LET all == x.TypeSpace \o x.SelfSpace \o x.FnSpace
            IN  [i \in 1..Len(all) |-> Part(Tail(K), all[i])]
      [] K[1] \in {"Ty", "sty"} ->
            CASE x.tag \in {"ty_uniq", "ty_vec", "ty_open"} -> <<Part(<<"Ty">>, x.ty)>>
              [] x.tag = "ty_ptr" -> <<Part(<<"mt">>, x.mt)>>
              [] x.tag \in {"ty_enum", "ty_struct"} -> <<Part(<<"Substs">>, x.substs)>>
              [] x.tag = "ty_trait" ->
                    <<Part(<<"Substs">>, x.substs), Part(<<"ExistentialBounds">>, x.bounds)>>
              [] x.tag = "ty_tup" -> <<Part(<<"Vec", "Ty">>, x.tys)>>
              [] x.tag = "ty_bare_fn" -> <<Part(<<"BareFnTy">>, x.bare_fn)>>
              [] x.tag = "ty_closure" -> <<Part(<<"ClosureTy">>, x.closure)>>
              [] x.tag = "ty_rptr" -> <<Part(<<"Region">>, x.r), Part(<<"mt">>, x.mt)>>
              [] x.tag = "ty_unboxed_closure" -> <<Part(<<"Region">>, x.r)>>
              [] OTHER -> <<>>
      [] K[1] = "mt" -> <<Part(<<"Ty">>, x.ty)>>
      [] K[1] = "FnSig" ->
            <<Part(<<"Vec", "Ty">>, x.inputs), Part(<<"Ty">>, x.output)>>
      [] K[1] = "BareFnTy" -> <<Part(<<"FnSig">>, x.sig)>>
      [] K[1] = "ClosureTy" ->
            <<Part(<<"TraitStore">>, x.store), Part(<<"FnSig">>, x.sig),
              Part(<<"ExistentialBounds">>, x.bounds)>>
      [] K[1] = "TraitStore" ->
            IF x.tag = "RegionTraitStore" THEN <<Part(<<"Region">>, x.r)>> ELSE <<>>
      [] K[1] = "ExistentialBounds" -> <<Part(<<"Region">>, x.region_bound)>>
      [] K[1] = "Substs" ->
            (IF x.regions.tag = "NonerasedRegions"
             THEN <<Part(<<"VecPerParamSpace", "Region">>, x.regions.regions)>>
             ELSE <<>>)
                \o <<Part(<<"VecPerParamSpace", "Ty">>, x.types)>>
      [] K[1] \in {"TraitRef", "ItemSubsts"} -> <<Part(<<"Substs">>, x.substs)>>
      [] K[1] = "Obligation" -> <<Part(<<"Rc", "TraitRef">>, x.trait_ref)>>
      [] K[1] = "AutoRef" ->
            CASE x.tag = "AutoPtr" ->
                    <<Part(<<"Region">>, x.r), Part(<<"Option", "AutoRef">>, x.autoref)>>
              [] x.tag = "AutoUnsafe" -> <<Part(<<"Option", "AutoRef">>, x.autoref)>>
              [] OTHER -> <<Part(<<"UnsizeKind">>, x.kind)>>
      [] K[1] = "UnsizeKind" ->
            CASE x.tag = "UnsizeStruct" -> <<Part(<<"UnsizeKind">>, x.kind)>>
              [] x.tag = "UnsizeVtable" ->
                    <<Part(<<"ExistentialBounds">>, x.ty_trait.bounds),
                      Part(<<"Substs">>, x.ty_trait.substs),
                      Part(<<"Ty">>, x.self_ty)>>
              [] OTHER -> <<>>
      [] OTHER -> <<>>

\* the binder ids a type node brings into scope for what lies inside it
BindersOf(K, x) ==
    IF K[1] = "Ty" /\ x.tag = "ty_bare_fn" THEN {x.bare_fn.sig.binder_id}
    ELSE IF K[1] = "Ty" /\ x.tag = "ty_closure" THEN {x.closure.sig.binder_id}
    ELSE {}

\* every region occurrence of a value, left to right, each with the binder
\* ids of the function and closure types that enclose it
RECURSIVE RegionsIn(_, _, _)
RECURSIVE RegionsInAll(_, _)
RegionsInAll(parts, bs) ==
    IF parts = <<>> THEN <<>>
    ELSE RegionsIn(Head(parts).k, Head(parts).n, bs) \o RegionsInAll(Tail(parts), bs)
RegionsIn(K, x, bs) ==
    IF K[1] = "Region" THEN <<[r |-> x, binders |-> bs]>>
    ELSE RegionsInAll(Children(K, x), bs \cup BindersOf(K, x))

\* every type node of a value, children before parents (post-order)
RECURSIVE TysIn(_, _)
RECURSIVE TysInAll(_)
TysInAll(parts) ==
    IF parts = <<>> THEN <<>>
    ELSE TysIn(Head(parts).k, Head(parts).n) \o TysInAll(Tail(parts))
TysIn(K, x) ==
    TysInAll(Children(K, x)) \o (IF K[1] = "Ty" THEN <<x>> ELSE <<>>)

Folded == op \in {"folded", "folded_again"}

\* ------------------------------------------------------------------------
\* Properties
\* ------------------------------------------------------------------------

\* C1 (identity law): a fold_with under a folder that overrides no hook of
\* TypeFolder returns a value structurally equal to the input, for every
\* foldable kind and every Option / Vec / VecPerParamSpace of them.
IdentityLaw ==
    (Folded /\ folder.kind = "Default") => result = input.node

\* C1 witness: a closure type inside a tuple has been folded by the default folder
IdentityLawWitness ==
    /\ op = "folded"
    /\ folder.kind = "Default"
    /\ input.kind = <<"Ty">>
    /\ input.node.tag = "ty_tup"
    /\ \E i \in DOMAIN input.node.tys : input.node.tys[i].tag = "ty_closure"
    /\ result = input.node

\* C4 (erasure idempotence): erasing the regions of an erased value gives the
\* erased value again: erase_regions(erase_regions(T)) = erase_regions(T).
ErasureIdempotent ==
    op = "erased_again" => result = prev

\* C4 witness: a value with a free region was erased (and changed), then erased again
ErasureIdempotentWitness ==
    /\ op = "erased_again"
    /\ prev # input.node
    /\ \E i \in DOMAIN RegionsIn(input.kind, input.node, {}) :
          RegionsIn(input.kind, input.node, {})[i].r.tag = "ReFree"
    /\ result = prev

\* C5: the result of erase_regions holds no free and no inferred region, at
\* any position of the term.
ErasedHasNoFreeRegion ==
    op \in {"erased", "erased_again"} =>
        \A i \in DOMAIN RegionsIn(input.kind, result, {}) :
            RegionsIn(input.kind, result, {})[i].r.tag \notin {"ReFree", "ReInfer"}

\* C5 witness: a type whose closure store, existential bound or nested
\* substitution held a free or inferred region has been erased
ErasedHasNoFreeRegionWitness ==
    /\ op = "erased"
    /\ input.kind = <<"Ty">>
    /\ input.node.tag \in {"ty_closure", "ty_trait", "ty_struct"}
    /\ \E i \in DOMAIN RegionsIn(input.kind, input.node, {}) :
          RegionsIn(input.kind, input.node, {})[i].r.tag \in {"ReFree", "ReInfer"}
    /\ \A i \in DOMAIN RegionsIn(input.kind, result, {}) :
          RegionsIn(input.kind, result, {})[i].r.tag \notin {"ReFree", "ReInfer"}

\* a region-rewriting fold of a type term that ran to completion
MarkerFold ==
    /\ op = "folded"
    /\ folder.kind = "RegionFolder"
    /\ folder.fld_r = "to_marker"
    /\ ~folder.unwinding
    /\ input.kind = <<"Ty">>
\* the occurrence e is a late-bound region in the scope of its own binder
BoundHere(e) == e.r.tag = "ReLateBound" /\ e.r.binder_id \in e.binders

\* C2 (bound/free region separation): under a RegionFolder whose fld_r maps
\* every region to the marker, every occurrence of a late-bound region bound by
\* an enclosing function or closure type (one with that region's binder id) is
\* unchanged, and every region occurrence that is free in the term is replaced
\* by the marker.
BoundFreeSeparation ==
    MarkerFold =>
        LET I == RegionsIn(input.kind, input.node, {})
            O == RegionsIn(input.kind, result, {})
        IN  /\ Len(O) = Len(I)
            /\ \A i \in DOMAIN I :
                  O[i].r = IF BoundHere(I[i]) THEN I[i].r ELSE MarkerRegion

\* C2 witness: a tuple of a function type that uses its late-bound region and
\* a reference with a free region has been folded; the former is kept, the
\* latter rewritten
BoundFreeSeparationWitness ==
    /\ MarkerFold
    /\ input.node.tag = "ty_tup"
    /\ Len(input.node.tys) = 2
    /\ input.node.tys[1].tag = "ty_bare_fn"
    /\ \E i \in DOMAIN RegionsIn(input.kind, input.node, {}) :
          BoundHere(RegionsIn(input.kind, input.node, {})[i])
    /\ input.node.tys[2].tag = "ty_rptr"
    /\ input.node.tys[2].r = ReFree(1)
    /\ result.tys[2].r = MarkerRegion
    /\ result.tys[1] = input.node.tys[1]

\* ------------------------------------------------------------------------
\* Substitution
\* ------------------------------------------------------------------------
\* the slot (space, idx) is covered by the type component of the substitution
Covered(S, space, idx) == idx + 1 \in DOMAIN S.types[space]

\* y is x with every covered generic-parameter placeholder replaced by its
\* argument, at every depth: same tags and same number of parts elsewhere
RECURSIVE Substituted(_, _, _, _)
Substituted(K, x, y, S) ==
    IF K[1] = "Ty" /\ x.tag = "ty_param"
    THEN Covered(S, x.space, x.idx) => y = S.types[x.space][x.idx + 1]
    ELSE IF K[1] = "Region" THEN TRUE
    ELSE LET cx == Children(K, x)
             cy == Children(K, y)
         IN  /\ K[1] \in {"Ty", "sty"} => y.tag = x.tag
             /\ Len(cy) = Len(cx)
             /\ \A i \in DOMAIN cx :
                   /\ cy[i].k = cx[i].k
                   /\ Substituted(cx[i].k, cx[i].n, cy[i].n, S)

\* the value holds no placeholder of a generic parameter: no type parameter
\* and no early-bound region
NoPlaceholder(K, x) ==
    /\ \A i \in DOMAIN TysIn(K, x) : TysIn(K, x)[i].tag # "ty_param"
    /\ \A i \in DOMAIN RegionsIn(K, x, {}) : RegionsIn(K, x, {})[i].r.tag # "ReEarlyBound"

Substed == op \in {"subst", "subst_spanned"} /\ ~folder.unwinding

HookKinds ==
    {"Ty", "mt", "TraitRef", "sty", "FnSig", "BareFnTy", "ClosureTy", "Substs",
     "Region", "TraitStore", "ExistentialBounds", "AutoRef", "ItemSubsts", "Obligation"}
HookOf(k) ==
    CASE k = "Ty" -> "fold_ty"
      [] k = "mt" -> "fold_mt"
      [] k = "TraitRef" -> "fold_trait_ref"
      [] k = "sty" -> "fold_sty"
      [] k = "FnSig" -> "fold_sig"
      [] k = "BareFnTy" -> "fold_bare_fn_ty"
      [] k = "ClosureTy" -> "fold_closure_ty"
      [] k = "Substs" -> "fold_substs"
      [] k = "Region" -> "fold_region"
      [] k = "TraitStore" -> "fold_trait_store"
      [] k = "ExistentialBounds" -> "fold_existential_bounds"
      [] k = "AutoRef" -> "fold_autoref"
      [] k = "ItemSubsts" -> "fold_item_substs"
      [] k = "Obligation" -> "fold_obligation"

\* the elements of a (nested) container, in order; a node is its own element
RECURSIVE Elems(_, _)
RECURSIVE ElemsAll(_)
ElemsAll(parts) ==
    IF parts = <<>> THEN <<>>
    ELSE Elems(Head(parts).k, Head(parts).n) \o ElemsAll(Tail(parts))
Elems(K, x) ==
    IF K[1] \in Containers THEN ElemsAll(Children(K, x)) ELSE <<Part(K, x)>>

\* the calls the fold made from outside any hook
IsTopCall(c) == c.depth = 0
TopCalls == SelectSeq(folder.calls, IsTopCall)

\* C6 (dispatch rule): the fold_with of a node of a kind that has a hook, alone
\* or as an element of a container, makes exactly one call into the folder, to
\* the hook of the node's kind with the node as argument.
DispatchRule ==
    (op = "folded" /\ ~folder.unwinding) =>
        LET E == Elems(input.kind, input.node)
        IN  (\A i \in DOMAIN E : E[i].k[1] \in HookKinds) =>
                /\ Len(TopCalls) = Len(E)
                /\ \A i \in DOMAIN E :
                      /\ TopCalls[i].hook = HookOf(E[i].k[1])
                      /\ TopCalls[i].node = E[i].n

\* C7 (binder stack discipline): after a top-level fold with a RegionFolder
\* that started with an empty stack, on whatever path the fold was left,
\* within_binder_ids is empty again.
BinderStackRestored ==
    (Folded /\ folder.kind = "RegionFolder") => folder.within_binder_ids = <<>>

\* the fold of one element by a fresh folder of the same behaviour
FoldOfElem(e) ==
    fold_with([folder EXCEPT !.calls = <<>>, !.depth = 0], e.k, e.n).val

\* same container shape: same length, same per-space partition
SameShape(K, x, y) ==
    CASE K[1] = "VecPerParamSpace" ->
            /\ Len(y.TypeSpace) = Len(x.TypeSpace)
            /\ Len(y.SelfSpace) = Len(x.SelfSpace)
            /\ Len(y.FnSpace) = Len(x.FnSpace)
      [] K[1] = "Rc" -> TRUE
      [] OTHER -> Len(y) = Len(x)

\* C8 (container lifting): the fold of an Option, Vec, OwnedSlice, Rc or
\* VecPerParamSpace hands each element once, in order, to the folder, and
\* returns a container of the same shape whose i-th element is the fold of the
\* i-th element; [~int, int, T] under the replacement of int by uint becomes
\* [~uint, uint, T].
ContainerLifting ==
    (op = "folded" /\ folder.kind = "BottomUpFolder" /\ input.kind[1] \in Containers) =>
        LET E == Elems(input.kind, input.node)
            O == Elems(input.kind, result)
        IN  /\ SameShape(input.kind, input.node, result)
            /\ Len(O) = Len(E)
            /\ \A i \in DOMAIN E : O[i].n = FoldOfElem(E[i])
            /\ Len(TopCalls) = Len(E)
            /\ \A i \in DOMAIN E : TopCalls[i].node = E[i].n
            /\ (input.node = <<>>) => (result = <<>>)
            /\ (/\ folder.fldop = "int_to_uint"
                /\ input = Val(<<"Vec", "Ty">>, <<ty_uniq(TyInt), TyInt, Param0>>))
                   => result = <<ty_uniq(ty_leaf("ty_uint")), ty_leaf("ty_uint"), Param0>>

\* C8 witness: [~int, int, T] has been folded with the replacement of int by uint
ContainerLiftingWitness ==
    /\ op = "folded"
    /\ folder.kind = "BottomUpFolder"
    /\ folder.fldop = "int_to_uint"
    /\ input = Val(<<"Vec", "Ty">>, <<ty_uniq(TyInt), TyInt, Param0>>)
    /\ result = <<ty_uniq(ty_leaf("ty_uint")), ty_leaf("ty_uint"), Param0>>
    /\ Len(TopCalls) = 3

\* ------------------------------------------------------------------------
\* Bottom-up folder
\* ------------------------------------------------------------------------
IsFldopCall(c) == c.hook = "fldop"
FldopCalls == SelectSeq(folder.calls, IsFldopCall)

\* C9 (bottom-up folder): over a traversal fldop is called once per type node
\* visited, children before parents (the calls follow the post-order of the
\* type nodes of the input); the argument of the call for a node is the node
\* rebuilt by the structural default from its folded children, and fold_ty
\* returns fldop of it.
BottomUpPostOrder ==
    (op = "folded" /\ folder.kind = "BottomUpFolder") =>
        LET N == TysIn(input.kind, input.node)
            C == FldopCalls
        IN  /\ Len(C) = Len(N)
            /\ \A i \in DOMAIN N :
                  LET cn == Children(<<"Ty">>, N[i])
                      cc == Children(<<"Ty">>, C[i].node)
                  IN  /\ C[i].node.tag = N[i].tag
                      /\ Len(cc) = Len(cn)
                      /\ \A j \in DOMAIN cn : cc[j].n = FoldOfElem(cn[j])
            /\ folder.fldop = "noop" => [i \in DOMAIN C |-> C[i].node] = N
            /\ input.kind = <<"Ty">> =>
                  result = apply_fldop(folder.fldop, C[Len(C)].node)

\* C9 witness: a box of a type parameter was folded with the fldop that boxes
\* parameters: fldop saw the parameter first, then the box of the boxed parameter
BottomUpPostOrderWitness ==
    /\ op = "folded"
    /\ folder.kind = "BottomUpFolder"
    /\ folder.fldop = "box_param"
    /\ input = Val(<<"Ty">>, ty_uniq(Param0))
    /\ Len(FldopCalls) = 2
    /\ FldopCalls[1].node = Param0
    /\ FldopCalls[2].node = ty_uniq(ty_uniq(Param0))
    /\ result = ty_uniq(ty_uniq(Param0))

\* ------------------------------------------------------------------------
\* Referential transparency
\* ------------------------------------------------------------------------
\* C10 (referential transparency): folding the same value a second time with
\* the same RegionFolder or RegionEraser instance gives the result of the
\* first fold, and leaves the binder stack as the first fold left it.
SameResultTwice ==
    (op = "folded_again" /\ folder.kind \in {"RegionFolder", "RegionEraser"}) =>
        /\ result = prev
        /\ folder.within_binder_ids = <<>>

\* C10 witness: a RegionFolder that rewrites regions folded twice a type with a
\* function type that binds a region, and the fold changed the type
SameResultTwiceWitness ==
    /\ op = "folded_again"
    /\ folder.kind = "RegionFolder"
    /\ folder.fld_r = "to_marker"
    /\ input.kind = <<"Ty">>
    /\ \E i \in DOMAIN RegionsIn(input.kind, input.node, {}) :
          BoundHere(RegionsIn(input.kind, input.node, {})[i])
    /\ prev # input.node
    /\ result = prev

\* ------------------------------------------------------------------------
\* Region eraser and region folder, region by region
\* ------------------------------------------------------------------------
BoundKinds == {"ReLateBound", "ReEarlyBound"}

\* C11 (region eraser rule): erase_regions keeps every late-bound and every
\* early-bound region occurrence, inside or outside the function type of its
\* binder, turns every other region occurrence into the static region, and
\* changes nothing else: a value whose regions are all bound or static comes
\* back equal, and no type node changes its variant.
EraserRule ==
    op = "erased" =>
        LET I == RegionsIn(input.kind, input.node, {})
            O == RegionsIn(input.kind, result, {})
            N == TysIn(input.kind, input.node)
            M == TysIn(input.kind, result)
        IN  /\ Len(O) = Len(I)
            /\ \A i \in DOMAIN I :
                  O[i].r = IF I[i].r.tag \in BoundKinds THEN I[i].r ELSE ReStatic
            /\ Len(M) = Len(N)
            /\ \A i \in DOMAIN N : M[i].tag = N[i].tag
            /\ (\A i \in DOMAIN I : I[i].r.tag \in BoundKinds \cup {"ReStatic"})
                  => result = input.node

\* C11 witness: a tuple with a function type that uses its late-bound region,
\* the same late-bound region outside it and a free region has been erased
EraserRuleWitness ==
    /\ op = "erased"
    /\ input.kind = <<"Ty">>
    /\ input.node.tag = "ty_tup"
    /\ Len(input.node.tys) = 3
    /\ \E i \in DOMAIN RegionsIn(input.kind, input.node, {}) :
          BoundHere(RegionsIn(input.kind, input.node, {})[i])
    /\ input.node.tys[2].tag = "ty_rptr"
    /\ input.node.tys[2].r.tag = "ReLateBound"
    /\ input.node.tys[3].tag = "ty_rptr"
    /\ input.node.tys[3].r = ReFree(1)
    /\ result.tys[1] = input.node.tys[1]
    /\ result.tys[2] = input.node.tys[2]
    /\ result.tys[3].r = ReStatic

IsRegionCall(c) == c.hook \in {"fold_region", "fld_r"}
RegionCalls == SelectSeq(folder.calls, IsRegionCall)
IsFoldRegion(c) == c.hook = "fold_region"
FoldRegionCalls == SelectSeq(folder.calls, IsFoldRegion)
\* the region of the call is late-bound with its binder id on the stack
BoundAtCall(c) == c.node.tag = "ReLateBound" /\ contains(c.binders, c.node.binder_id)

\* C12 (region hook of RegionFolder): a call of fold_region is followed by a
\* call of fld_r, on the same region and exactly once, if and only if the
\* region is not a late-bound region whose binder id is on within_binder_ids at
\* the time of the call; a region of the first sort is returned unchanged, any
\* other as fld_r returns it.
RegionHookRule ==
    (op = "folded" /\ folder.kind = "RegionFolder" /\ ~folder.unwinding) =>
        LET C == RegionCalls
            H == FoldRegionCalls
            O == RegionsIn(input.kind, result, {})
        IN  /\ \A i \in DOMAIN C :
                  /\ C[i].hook = "fold_region" =>
                        (BoundAtCall(C[i]) <=>
                            ~(i < Len(C) /\ C[i + 1].hook = "fld_r"))
                  /\ C[i].hook = "fld_r" =>
                        /\ i > 1
                        /\ C[i - 1].hook = "fold_region"
                        /\ C[i - 1].node = C[i].node
            /\ Len(O) = Len(H)
            /\ \A k \in DOMAIN H :
                  O[k].r = IF BoundAtCall(H[k]) THEN H[k].node
                           ELSE apply_fld_r(folder.fld_r, H[k].node)

\* C12 witness: one fold passed a late-bound region through inside the function
\* type of its binder and handed the same region to fld_r outside it
RegionHookRuleWitness ==
    /\ op = "folded"
    /\ folder.kind = "RegionFolder"
    /\ folder.fld_r = "to_marker"
    /\ ~folder.unwinding
    /\ \E i, j \in DOMAIN FoldRegionCalls :
          /\ BoundAtCall(FoldRegionCalls[i])
          /\ ~BoundAtCall(FoldRegionCalls[j])
          /\ FoldRegionCalls[j].node = FoldRegionCalls[i].node
          /\ RegionsIn(input.kind, result, {})[i].r = FoldRegionCalls[i].node
          /\ RegionsIn(input.kind, result, {})[j].r = MarkerRegion

IsFldRCall(c) == c.hook = "fld_r"
FldRCalls == SelectSeq(folder.calls, IsFldRCall)
RegionFolded == Folded /\ folder.kind = "RegionFolder"

SigBindersOf(K, x) == IF K[1] = "FnSig" THEN {x.binder_id} ELSE {}
RECURSIVE RegionsInSig(_, _, _)
RECURSIVE RegionsInSigAll(_, _)
RegionsInSigAll(parts, bs) ==
    IF parts = <<>> THEN <<>>
    ELSE RegionsInSig(Head(parts).k, Head(parts).n, bs) \o RegionsInSigAll(Tail(parts), bs)
RegionsInSig(K, x, bs) ==
    IF K[1] = "Region" THEN <<[r |-> x, binders |-> bs]>>
    ELSE RegionsInSigAll(Children(K, x), bs \cup SigBindersOf(K, x))

StackSet(c) == {c.binders[i] : i \in DOMAIN c.binders}
IsFoldSig(c) == c.hook = "fold_sig"
FoldSigCalls == SelectSeq(folder.calls, IsFoldSig)
RegionFoldedOnce == op = "folded" /\ folder.kind = "RegionFolder" /\ ~folder.unwinding

\* C14 as stated: by whatever entry point a signature is reached (a Ty, or a
\* BareFnTy, ClosureTy or FnSig folded directly), its binder id is on
\* within_binder_ids at the fold of every region of its inputs and output, and
\* a late-bound region it binds is never passed to fld_r.
BinderPushedByAnyEntry ==
    RegionFoldedOnce =>
        LET S == RegionsInSig(input.kind, input.node, {})
            H == FoldRegionCalls
        IN  \A k \in DOMAIN S :
                /\ S[k].binders \subseteq StackSet(H[k])
                /\ (S[k].r.tag = "ReLateBound" /\ S[k].r.binder_id \in S[k].binders)
                      => BoundAtCall(H[k])

\* C14 (binder push on entry through fold_ty): while a RegionFolder folds what
\* lies inside a Ty of kind ty_bare_fn or ty_closure, at the top or nested, the
\* binder id of its signature is on within_binder_ids, and a late-bound region
\* bound there is not passed to fld_r; nothing else is ever on the stack, so a
\* BareFnTy, ClosureTy or FnSig folded directly has the binder id of its own
\* signature off the stack.
BinderPushedByFoldTy ==
    RegionFoldedOnce =>
        LET I == RegionsIn(input.kind, input.node, {})
            H == FoldRegionCalls
        IN  /\ input.kind = <<"Ty">> =>
                  \A i \in DOMAIN FoldSigCalls :
                      contains(FoldSigCalls[i].binders, FoldSigCalls[i].node.binder_id)
            /\ Len(H) = Len(I)
            /\ \A k \in DOMAIN I :
                  /\ StackSet(H[k]) = I[k].binders
                  /\ BoundHere(I[k]) => BoundAtCall(H[k])
            /\ input.kind[1] \in {"BareFnTy", "ClosureTy", "FnSig"} =>
                  folder.calls[1].binders = <<>>

\* C14 witness: a function type nested in a tuple, with a late-bound region of
\* its own binder in its input, has been folded; the binder id was on the stack
\* at the fold of the signature and of the region, and fld_r did not see it
BinderPushedByFoldTyWitness ==
    /\ RegionFoldedOnce
    /\ folder.fld_r = "to_marker"
    /\ input.kind = <<"Ty">>
    /\ input.node.tag = "ty_tup"
    /\ Len(FoldSigCalls) = 1
    /\ contains(FoldSigCalls[1].binders, FoldSigCalls[1].node.binder_id)
    /\ \E k \in DOMAIN FoldRegionCalls :
          /\ BoundAtCall(FoldRegionCalls[k])
          /\ FoldRegionCalls[k].node.binder_id = FoldSigCalls[1].node.binder_id
    /\ \A i \in DOMAIN FldRCalls : FldRCalls[i].node.tag # "ReLateBound"

\* ------------------------------------------------------------------------
\* The structural defaults, called directly
\* ------------------------------------------------------------------------
SuperFolded == op = "super_folded" /\ ~folder.unwinding

\* the children a structural default is handed: a Ty has one, its sty
SyntacticChildren(K, x) ==
    IF K[1] = "Ty" THEN <<Part(<<"sty">>, get_sty(x))>> ELSE Children(K, x)

\* the nodes of hooked kinds reached from a part through containers and through
\* kinds that have no hook of their own, in order
RECURSIVE HookNodes(_, _)
RECURSIVE HookNodesAll(_)
HookNodesAll(parts) ==
    IF parts = <<>> THEN <<>>
    ELSE HookNodes(Head(parts).k, Head(parts).n) \o HookNodesAll(Tail(parts))
HookNodes(K, x) ==
    IF K[1] \in HookKinds THEN <<Part(K, x)>> ELSE HookNodesAll(Children(K, x))

\* C15 (structural defaults delegate): a structural default folds each child
\* through the folder: the calls it makes into the folder are, in order, one
\* call to the hook of each syntactic child, with that child as argument; the
\* inner link of a nested auto-reference chain is such a child.
DefaultsDelegate ==
    SuperFolded =>
        LET E == HookNodesAll(SyntacticChildren(input.kind, input.node))
        IN  /\ Len(TopCalls) = Len(E)
            /\ \A i \in DOMAIN E :
                  /\ TopCalls[i].hook = HookOf(E[i].k[1])
                  /\ TopCalls[i].node = E[i].n

\* the frame of a value: its variant tag and the fields that are not foldable
Frame(K, x) ==
    CASE K[1] \in {"Ty", "sty"} ->
            CASE x.tag \in LeafTags -> <<x>>
              [] x.tag = "ty_vec" -> <<x.tag, x.sz>>
              [] x.tag \in {"ty_enum", "ty_struct", "ty_trait", "ty_unboxed_closure"} ->
                    <<x.tag, x.def_id>>
              [] OTHER -> <<x.tag>>
      [] K[1] = "mt" -> <<x.mutbl>>
      [] K[1] = "FnSig" -> <<x.binder_id, x.variadic, Len(x.inputs)>>
      [] K[1] = "BareFnTy" -> <<x.abi, x.fn_style>>
      [] K[1] = "ClosureTy" -> <<x.fn_style, x.onceness, x.abi>>
      [] K[1] = "TraitRef" -> <<x.def_id>>
      [] K[1] = "Substs" -> <<x.regions.tag>>
      [] K[1] = "TraitStore" ->
            IF x.tag = "RegionTraitStore" THEN <<x.tag, x.mutbl>> ELSE <<x.tag>>
      [] K[1] = "ExistentialBounds" -> <<x.builtin_bounds>>
      [] K[1] = "AutoRef" ->
            CASE x.tag \in {"AutoPtr", "AutoUnsafe"} -> <<x.tag, x.mutbl, x.autoref # None>>
              [] OTHER -> <<x.tag, x.kind.tag>>
      [] K[1] = "Obligation" -> <<x.cause, x.recursion_depth>>
      [] OTHER -> <<>>

KindsOf(parts) == [i \in DOMAIN parts |-> parts[i].k]

\* C16 (shape preservation): a structural default returns a value of the same
\* kind and variant with every non-foldable field copied from its input (def
\* ids, mutability, array size, binder_id, variadic, abi, fn_style, onceness,
\* builtin bounds, obligation cause and recursion_depth; ErasedRegions stays
\* ErasedRegions), under any folder; a leaf type variant comes back from
\* super_fold_sty unchanged and no call into the folder is made.
ShapePreserved ==
    SuperFolded =>
        /\ Frame(input.kind, result) = Frame(input.kind, input.node)
        /\ KindsOf(Children(input.kind, result)) =
               KindsOf(Children(input.kind, input.node))
        /\ (input.kind[1] \in {"Ty", "sty"} /\ input.node.tag \in LeafTags) =>
               /\ result = input.node
               /\ input.kind[1] = "sty" => folder.calls = <<>>

\* a variadic bare fn with the C abi whose signature the folder rewrote
ShapePreservedWitness ==
    /\ SuperFolded
    /\ input.kind = <<"BareFnTy">>
    /\ input.node.sig.variadic
    /\ result # input.node
    /\ result.abi = "C"
    /\ result.sig.variadic

====
